---- MODULE Spec2Model ----
(***************************************************************************)
(* Model of the type-level program of modernice/typed-response.            *)
(*                                                                         *)
(* The program is a set of TypeScript type aliases (conditional and mapped *)
(* types).  A TypeScript type is modelled as the set of its union members  *)
(* (never is the empty set).  A member is a record [kind, props]:          *)
(*   kind  one of "string" "number" "boolean" "Date" "null" "undefined"    *)
(*         "unknown" "any" (props empty), or "obj" "arr" "tup";            *)
(*   props the properties [k, t, opt] of an object; for an array the one   *)
(*         element property (k = "n", the number index); for a tuple one   *)
(*         property per position (k = "0", "1", ...).                      *)
(* An optional property (opt) always carries undefined in its type t, as   *)
(* the type checker reads it under strictNullChecks.                       *)
(*                                                                         *)
(* Two versions of ResponseOf are in the sources: src/unnamed/part_000     *)
(* (ReplacePrimitives / ApplyMapping / Expand) and src/index.d.ts (the     *)
(* definitions whose names end in _index here).                            *)
(***************************************************************************)
EXTENDS Integers, FiniteSets, Sequences

VARIABLES T, M, out, prev, pc

vars == <<T, M, out, prev, pc>>

-----------------------------------------------------------------------------
(* Type constructors.                                                      *)

Atom(kind) == [kind |-> kind, props |-> {}]

String == Atom("string")
Number == Atom("number")
Boolean == Atom("boolean")
Date == Atom("Date")
Null == Atom("null")
Undefined == Atom("undefined")
Unknown == Atom("unknown")
TAny == Atom("any")

Never == {}

Prop(k, t, opt) == [k |-> k, t |-> t, opt |-> opt]

Req(k, t) == Prop(k, t, FALSE)

Opt(k, t) == Prop(k, t \cup {Undefined}, TRUE)

Obj(props) == [kind |-> "obj", props |-> props]

Arr(t) == [kind |-> "arr", props |-> {Req("n", t)}]

TupleKeys == <<"0", "1", "2">>

Tup(ts) == [kind |-> "tup", props |-> {Req(TupleKeys[i], ts[i]) : i \in DOMAIN ts}]

EmptyObj == Obj({})

-----------------------------------------------------------------------------
(* What the type checker decides.                                          *)

\* A | B: any and unknown absorb the other members of a union.
Absorb(S) ==
  IF TAny \in S THEN {TAny} ELSE IF Unknown \in S THEN {Unknown} ELSE S

Union2(A, B) == Absorb(A \cup B)

\* Exclude<X, U>: the members of X not assignable to U (U a set of atoms).
Exclude(X, U) == X \ U

\* undefined extends X
UndefinedExtends(X) == Undefined \in X \/ Unknown \in X \/ TAny \in X

\* null extends X
NullExtends(X) == Null \in X \/ Unknown \in X \/ TAny \in X

\* unknown extends X
UnknownExtends(X) == Unknown \in X \/ TAny \in X

\* X extends Record<string, any> (not distributive: every member must be an
\* object type; arrays, tuples and Date are object types).
ExtendsMappable(X) == \A m \in X : m.kind \in {"obj", "arr", "tup", "Date"}

\* X extends Array<unknown> (not distributive).
ExtendsArray(X) == \A m \in X : m.kind \in {"arr", "tup"}

\* m extends Record<string, unknown>, for one member: only an object type
\* written as a type literal or produced by a mapped type has the implicit
\* index signature; arrays, tuples, Date and the primitives do not.
ExtendsRecordUnknown(m) == m.kind = "obj"

Keys(m) == {p.k : p \in m.props}

PropOf(m, k) == CHOOSE p \in m.props : p.k = k

\* X[K] of an instantiated type: the property's type (for a union, the
\* union over its members), and unknown when X, or a member of the union X,
\* has no such property.
Index(X, k) ==
  IF \A m \in X : k \in Keys(m)
  THEN Absorb(UNION {PropOf(m, k).t : m \in X})
  ELSE {Unknown}

-----------------------------------------------------------------------------
(* src/unnamed/part_000                                                    *)

RECURSIVE ReplacePrimitives(_, _, _, _)
RECURSIVE ReplaceStrict(_)

\* ReplacePrimitives<T> with its three defaulted parameters.
ReplacePrimitives1(t) ==
  ReplacePrimitives(t, Exclude(t, {Null}), Exclude(t, {Undefined}),
                    Exclude(t, {Null, Undefined}))

\* ReplaceStrict with the mapped type's template written TStrict[K] instead
\* of ReplacePrimitives<TStrict[K]>: the properties are not normalized.
ReplaceStrict_NoRecursion(s) ==
  IF s.kind \in {"string", "number", "boolean"} THEN {s}
  ELSE IF s.kind = "Date" THEN {String}
  ELSE IF ExtendsMappable({s}) THEN {s}
  ELSE {Unknown}

\* ReplaceStrict with string left out of the list of primitives.
ReplaceStrict_NoString(s) ==
  IF s.kind \in {"number", "boolean"} THEN {s}
  ELSE IF s.kind = "Date" THEN {String}
  ELSE IF ExtendsMappable({s})
  THEN {[kind |-> s.kind,
         props |-> {Prop(p.k, ReplacePrimitives1(p.t), p.opt) : p \in s.props}]}
  ELSE {Unknown}

\* The chain "TStrict extends string | number | boolean ? ... : unknown",
\* for one member s of TStrict (the chain distributes over TStrict).
ReplaceStrict(s) ==
  IF s.kind \in {"string", "number", "boolean"} THEN {s}
  ELSE IF s.kind = "Date" THEN {String}
  ELSE IF ExtendsMappable({s})
  THEN {[kind |-> s.kind,
         props |-> {Prop(p.k, ReplacePrimitives1(p.t), p.opt) : p \in s.props}]}
  ELSE {Unknown}

\* ReplacePrimitives with "| null" left out of the null branch.
ReplacePrimitives_DropNull(t, TNotNull, TNotUndefined, TStrict) ==
  Absorb(UNION {
    IF m.kind = "null" THEN ReplacePrimitives1(TNotNull)
    ELSE IF m.kind = "undefined"
    THEN Union2(ReplacePrimitives1(TNotUndefined), {Undefined})
    ELSE UNION {ReplaceStrict(s) : s \in TStrict}
    : m \in t})

\* The conditional distributes over the members of T; TNotNull,
\* TNotUndefined and TStrict are fixed when the alias is instantiated.
ReplacePrimitives(t, TNotNull, TNotUndefined, TStrict) ==
  Absorb(UNION {
    IF m.kind = "null" THEN Union2(ReplacePrimitives1(TNotNull), {Null})
    ELSE IF m.kind = "undefined"
    THEN Union2(ReplacePrimitives1(TNotUndefined), {Undefined})
    ELSE UNION {ReplaceStrict(s) : s \in TStrict}
    : m \in t})

RECURSIVE Expand(_)

Expand(t) ==
  {IF ExtendsRecordUnknown(m)
   THEN [kind |-> m.kind, props |-> {Prop(p.k, Expand(p.t), p.opt) : p \in m.props}]
   ELSE m
   : m \in t}

OptionalKeys(m) == {k \in Keys(m) : PropOf(m, k).opt}

RequiredKeys(m) == Keys(m) \ OptionalKeys(m)

PickOptionalPropertiesObject(m) == {p \in m.props : p.k \in OptionalKeys(m)}

\* A primitive is returned as it is and an array becomes a ReadonlyArray:
\* neither has a property of the model among its keys.
PickOptionalProperties(m) ==
  IF m.props = {} /\ m.kind # "obj" THEN {}
  ELSE IF m.kind \in {"arr", "tup"} THEN {}
  ELSE PickOptionalPropertiesObject(m)

PickRequiredPropertiesObject(m) == {p \in m.props : p.k \in RequiredKeys(m)}

PickRequiredProperties(m) ==
  IF ExtendsRecordUnknown(m) THEN PickRequiredPropertiesObject(m) ELSE {}

RECURSIVE ApplyMapping(_, _)
RECURSIVE ApplyMappingToProperty(_, _, _)

ApplyMappingToProperty(Map, o, k) ==
  LET value == PropOf(o, k).t
      mapped == Index(Map, k)
      ValueIsMappable == ExtendsMappable(value)
      ValueIsArray == ExtendsArray(value)
      SubMapping == IF ValueIsMappable
                    THEN IF UnknownExtends(mapped) THEN {EmptyObj} ELSE mapped
                    ELSE Never
      AppliedSubMapping == ApplyMapping(SubMapping, value)
  IN IF UnknownExtends(mapped) THEN value
     ELSE IF ~ValueIsMappable THEN mapped
     ELSE IF ValueIsArray THEN mapped
     ELSE AppliedSubMapping

\* ApplyOptionalMapping without its second mapped type's split: every
\* optional key stays optional.
ApplyOptionalMapping_KeepOptional(Map, o) ==
  {Prop(p.k, Union2(ApplyMappingToProperty(Map, o, p.k), {Undefined}), TRUE) :
     p \in PickOptionalProperties(o)}

\* Both mapped types of ApplyOptionalMapping: the optional keys of o whose
\* mapped type admits undefined stay optional, the others become required.
ApplyOptionalMapping(Map, o) ==
  {Prop(p.k, Union2(ApplyMappingToProperty(Map, o, p.k), {Undefined}), TRUE) :
     p \in {q \in PickOptionalProperties(o) :
              UndefinedExtends(ApplyMappingToProperty(Map, o, q.k))}}
  \cup
  {Prop(p.k, ApplyMappingToProperty(Map, o, p.k), FALSE) :
     p \in {q \in PickOptionalProperties(o) :
              ~UndefinedExtends(ApplyMappingToProperty(Map, o, q.k))}}

\* The required keys of o whose mapped type does not admit undefined; a key
\* whose mapped type admits undefined is remapped to never.
ApplyRequiredMapping(Map, o) ==
  {Prop(p.k, ApplyMappingToProperty(Map, o, p.k), FALSE) :
     p \in {q \in PickRequiredProperties(o) :
              ~UndefinedExtends(ApplyMappingToProperty(Map, o, q.k))}}

\* Distributes over the members of t.
ApplyMapping(Map, t) ==
  Absorb(UNION {
    IF ExtendsRecordUnknown(m)
    THEN Expand({Obj(ApplyOptionalMapping(Map, m) \cup ApplyRequiredMapping(Map, m))})
    ELSE {m}
    : m \in t})

\* ResponseOf<T, CustomMapping = never>: CustomMapping is handed to
\* ReplacePrimitives as its second type argument.
ResponseOf(t, CustomMapping) ==
  IF CustomMapping = Never
  THEN Expand(ReplacePrimitives(t, CustomMapping, Exclude(t, {Undefined}),
                                Exclude(t, {Null, Undefined})))
  ELSE ApplyMapping(CustomMapping,
                    ReplacePrimitives(t, CustomMapping, Exclude(t, {Undefined}),
                                      Exclude(t, {Null, Undefined})))

-----------------------------------------------------------------------------
(* src/index.d.ts                                                          *)

\* Mapping<T> = { [key in keyof T]?: any }, for one member of T: a
\* homomorphic mapped type, so an array or tuple keeps its kind.
Mapping_index(m) ==
  [kind |-> m.kind,
   props |-> {Prop(p.k, Union2({TAny}, {Undefined}), m.kind = "obj") : p \in m.props}]

\* X extends Date | null (not distributive).
ExtendsDateOrNull(X) == \A m \in X : m.kind \in {"Date", "null"}

RECURSIVE ResponseOf_index(_, _, _)
RECURSIVE ApplyMapping_index(_, _)
RECURSIVE ApplyMappingTo_index(_, _, _)

\* The default of CustomMapping: T extends Mappable ? Mapping<T> : never,
\* distributed over T.
CustomMappingDefault_index(t) ==
  UNION {IF ExtendsMappable({m}) THEN {Mapping_index(m)} ELSE Never : m \in t}

\* The default of ActualMapping: CustomMapping extends never ? {} :
\* CustomMapping distributes over CustomMapping, so never stays never.
ActualMappingDefault_index(CustomMapping) ==
  UNION {{c} : c \in CustomMapping}

\* ResponseOf<T> with both defaulted parameters.
ResponseOf1_index(t) ==
  ResponseOf_index(t, CustomMappingDefault_index(t),
                   ActualMappingDefault_index(CustomMappingDefault_index(t)))

ApplyMappingTo_index(Map, o, k) ==
  LET value == PropOf(o, k).t
      mapped == Index(Map, k)
      IsMappable == ExtendsMappable(value)
      IsMappableObject == IF ExtendsMappable(value)
                          THEN IF ExtendsArray(value) THEN FALSE ELSE TRUE
                          ELSE FALSE
      SubMapping == IF IsMappable
                    THEN IF UnknownExtends(mapped) THEN {EmptyObj} ELSE mapped
                    ELSE Never
      AppliedSubMapping ==
        Absorb(UNION {ApplyMapping_index({s}, value) : s \in SubMapping})
  IN IF UnknownExtends(mapped) THEN value
     ELSE IF IsMappableObject THEN AppliedSubMapping
     ELSE mapped

\* { [K in keyof T]: ApplyMappingTo<M, T, K> }: homomorphic in T, so it
\* keeps each property's optionality and the kind of an array or tuple.
ApplyMapping_index(Map, t) ==
  {IF ExtendsMappable({m}) /\ m.kind # "Date"
   THEN [kind |-> m.kind,
         props |-> {Prop(p.k,
                         IF p.opt
                         THEN Union2(ApplyMappingTo_index(Map, m, p.k), {Undefined})
                         ELSE ApplyMappingTo_index(Map, m, p.k),
                         p.opt) : p \in m.props}]
   ELSE m
   : m \in t}

\* The property type of the mapped type in ResponseOf's Mappable branch.
NullableProperty_index(x) ==
  IF NullExtends(x)
  THEN IF ExtendsDateOrNull(x) THEN {String}
       ELSE Union2(ResponseOf1_index(x), {Undefined})
  ELSE ResponseOf1_index(x)

\* The conditional distributes over the members of T.
ResponseOf_index(t, CustomMapping, ActualMapping) ==
  Absorb(UNION {
    IF m.kind = "string" THEN {String}
    ELSE IF m.kind = "Date" THEN {String}
    ELSE IF m.kind = "number" THEN {m}
    ELSE IF m.kind = "boolean" THEN {m}
    ELSE IF ExtendsMappable({m})
    THEN ApplyMapping_index(ActualMapping,
           {[kind |-> m.kind,
             props |-> {Prop(p.k,
                             IF p.opt
                             THEN Union2(NullableProperty_index(p.t), {Undefined})
                             ELSE NullableProperty_index(p.t),
                             p.opt) : p \in m.props}]})
    ELSE {String}
    : m \in t})

-----------------------------------------------------------------------------
(* The inputs: bounded families of types and mappings.                     *)

\* Nesting depth of the generated types and mappings.
MaxDepth == 2

NullishSets == SUBSET {Null, Undefined}

LeafTypes ==
  {{String}, {Number}, {Boolean}} \cup {A \cup N : A \in {Never, {Date}}, N \in NullishSets}

\* The types built from x by one more constructor: array, tuple, object
\* with required and optional properties, union.
Wraps(x) ==
  { {Arr(x)},
    {Tup(<<x, {String}>>)},
    {Tup(<<{Number}, {Date}, x>>)},
    {Obj({Req("a", x)})},
    {Obj({Opt("a", x)})},
    {Obj({Req("a", x), Req("b", {Date})})},
    {Obj({Req("a", {Date, Null}), Opt("b", x)})},
    x \cup {Null},
    x \cup {Undefined},
    x \cup {String},
    x \cup {Date},
    x \cup {Obj({Req("b", {Date})})} }

RECURSIVE Types(_)

Types(d) ==
  IF d = 0 THEN LeafTypes
  ELSE Types(d - 1) \cup UNION {Wraps(x) : x \in Types(d - 1)}

\* Object types for the custom mapping: property a carries the nesting,
\* property b a fixed choice.
PropLeaf ==
  { {String}, {Date}, {Date, Null}, {String, Undefined},
    {Arr({Date})}, {Tup(<<{Date}, {String}>>)} }

LeafB == { {}, {Req("b", {String, Undefined})}, {Opt("b", {Date})} }

LeafObjects ==
  {Obj({pa} \cup pb) : pa \in UNION {{Req("a", x), Opt("a", x)} : x \in PropLeaf},
                       pb \in LeafB}

NestObjects(o) ==
  { Obj({Req("a", {o})}),
    Obj({Req("a", {o, Null})}),
    Obj({Req("a", {o, Undefined})}),
    Obj({Opt("a", {o})}),
    Obj({Req("a", {o}), Req("b", {Date})}) }

\* Levels of object nesting above the leaf objects.
MaxNest == 2

RECURSIVE Objects(_)

Objects(d) ==
  IF d = 0 THEN LeafObjects
  ELSE Objects(d - 1) \cup UNION {NestObjects(o) : o \in Objects(d - 1)}

\* The objects that are also drawn as the nullable input o | null.
NullableObjects == Objects(1)

ObjectMembers(x) == {m \in x : m.kind = "obj"}

\* The types a mapping gives a property that it does not map by a nested
\* object mapping.
MapLeaf(p) ==
  IF p.k = "a" /\ ObjectMembers(p.t) = {}
  THEN { {Number}, {Number, Undefined}, {Number, Null} }
  ELSE { {Number} }

RECURSIVE Mappings(_)

\* The object mappings for object o: each key of o is left out, mapped to
\* a leaf type, or (when its type holds an object) mapped by a nested
\* object mapping.
Mappings(o) ==
  LET MapTypes(p) ==
        MapLeaf(p) \cup UNION {{{sub} : sub \in Mappings(n)} : n \in ObjectMembers(p.t)}
      Choices(k) ==
        IF k \in Keys(o)
        THEN {{}} \cup {{Req(k, mt)} : mt \in MapTypes(PropOf(o, k))}
        ELSE {{}}
  IN {Obj(ca \cup cb) : ca \in Choices("a"), cb \in Choices("b")}

-----------------------------------------------------------------------------
(* The state machine: an input type (and mapping) is drawn, and one        *)
(* instantiation of ResponseOf is evaluated on it.                         *)

Init ==
  /\ T \in Types(MaxDepth)
  /\ M = Never
  /\ out = Never
  /\ prev = Never
  /\ pc = "input"

\* ResponseOf<T> of src/unnamed/part_000.
Default ==
  /\ pc = "input"
  /\ out' = ResponseOf(T, Never)
  /\ prev' = T
  /\ pc' = "default"
  /\ UNCHANGED <<T, M>>

\* ResponseOf<ResponseOf<T>>.
Again ==
  /\ pc = "default"
  /\ out' = ResponseOf(out, Never)
  /\ prev' = out
  /\ pc' = "again"
  /\ UNCHANGED <<T, M>>

\* ResponseOf<T> of src/index.d.ts.
Default_index ==
  /\ pc = "input"
  /\ out' = ResponseOf1_index(T)
  /\ prev' = T
  /\ pc' = "index"
  /\ UNCHANGED <<T, M>>

Next == Default \/ Again \/ Default_index

Spec == Init /\ [][Next]_vars

InitMapped ==
  /\ \E o \in Objects(MaxNest) :
       /\ T \in {{o}} \cup {{n, Null} : n \in {o} \cap NullableObjects}
       /\ M \in {{m} : m \in Mappings(o)}
  /\ out = Never
  /\ prev = Never
  /\ pc = "input"

\* ResponseOf<T, M> of src/unnamed/part_000.
Mapped ==
  /\ pc = "input"
  /\ out' = ResponseOf(T, M)
  /\ prev' = T
  /\ pc' = "mapped"
  /\ UNCHANGED <<T, M>>

NextMapped == Default \/ Mapped

SpecMapped == InitMapped /\ [][NextMapped]_vars
-----------------------------------------------------------------------------
(* Helpers of the properties.                                              *)

\* The one member of a type that is a single object type.
TheObject(x) == CHOOSE m \in x : m.kind = "obj"

\* x is one plain object type: not a union, an array or a tuple.
PlainObject(x) == Cardinality(x) = 1 /\ \A m \in x : m.kind = "obj"

\* The input is one object type (not the nullable input o | null).
ObjectInput == PlainObject(T)

NullishOf(x) == x \cap {Null, Undefined}

RECURSIVE DatesToStrings(_)

\* The reference result: every Date replaced by string, nothing else changed.
DatesToStrings(t) ==
  {IF m.kind = "Date" THEN String
   ELSE [kind |-> m.kind,
         props |-> {Prop(p.k, DatesToStrings(p.t), p.opt) : p \in m.props}]
   : m \in t}

RECURSIVE DateFree(_)

DateFree(t) ==
  \A m \in t : m.kind # "Date" /\ \A p \in m.props : DateFree(p.t)

RECURSIVE HoldsDateAtDepth(_, _)

\* t holds a Date below d levels of objects, arrays or tuples.
HoldsDateAtDepth(t, d) ==
  IF d = 0 THEN Date \in t
  ELSE \E m \in t : \E p \in m.props : HoldsDateAtDepth(p.t, d - 1)

-----------------------------------------------------------------------------
(* C1: under the default mapping the result of ResponseOf<T> is T with     *)
(* every Date, at any depth and in every array element and tuple position, *)
(* replaced by string and nothing else changed; a Date-free T is returned  *)
(* unchanged.                                                              *)
C1_DefaultMapping ==
  pc = "default" =>
    /\ out = DatesToStrings(T)
    /\ (DateFree(T) => out = T)

\* A tuple that holds an object with an optional Date property was normalized.
C1_Witness ==
  /\ pc = "default"
  /\ out # T
  /\ \E m \in T : m.kind = "tup" /\ \E p \in m.props : \E n \in p.t :
       n.kind = "obj" /\ \E q \in n.props : q.opt /\ Date \in q.t

RECURSIVE C5_PropertiesKeepNullish(_)

\* Every property of t, at any depth, of type X | N normalizes to
\* ResponseOf<X> | N.
C5_PropertiesKeepNullish(t) ==
  \A m \in t : \A p \in m.props :
    /\ Index(ResponseOf({m}, Never), p.k)
         = Union2(ResponseOf(p.t \ NullishOf(p.t), Never), NullishOf(p.t))
    /\ C5_PropertiesKeepNullish(p.t)

(* C5: default normalization keeps null and undefined and distributes over *)
(* unions: ResponseOf<X | N> = ResponseOf<X> | N for N a subset of         *)
(* {null, undefined}, ResponseOf<A | B> = ResponseOf<A> | ResponseOf<B>,   *)
(* at the top level and for a property at any depth.                       *)
C5_NullishPreserved ==
  pc = "default" =>
    /\ \A N \in SUBSET NullishOf(T) : out = Union2(ResponseOf(T \ N, Never), N)
    /\ \A A \in SUBSET T : \A B \in SUBSET T :
         A \cup B = T => out = Union2(ResponseOf(A, Never), ResponseOf(B, Never))
    /\ \A m \in T : ResponseOf({m}, Never) \subseteq out
    /\ C5_PropertiesKeepNullish(T)

\* A nullable object with a property of type Date | null was normalized to
\* a nullable object whose property is string | null.
C5_Witness ==
  /\ pc = "default"
  /\ Null \in T
  /\ Null \in out
  /\ \E m \in T : m.kind = "obj" /\ Index({m}, "a") = {Date, Null}
  /\ \E r \in out : r.kind = "obj" /\ Index({r}, "a") = {String, Null}

(* C10: default normalization is idempotent:                               *)
(* ResponseOf<ResponseOf<T>> = ResponseOf<T>.                              *)
C10_Idempotent == pc = "again" => out = prev

\* The second normalization ran on a result that differs from its input T
\* (a Date two levels down was replaced).
C10_Witness ==
  /\ pc = "again"
  /\ prev # T
  /\ HoldsDateAtDepth(T, 2)

(* C7: in src/index.d.ts a property of type X | null has the type          *)
(* ResponseOf<X> | null in ResponseOf<T>; Date | null becomes              *)
(* string | null.                                                          *)
C7_NullablePropertyKeepsNull ==
  (pc = "index" /\ ObjectInput) =>
    \A p \in TheObject(T).props :
      Null \in p.t =>
        Index(out, p.k) = Union2(ResponseOf1_index(p.t \ {Null}), {Null})

-----------------------------------------------------------------------------
(* C2: a property K whose default-normalized type is not a plain object    *)
(* and that the mapping M names (M[K] not any/unknown) is present in       *)
(* ResponseOf<T, M> with exactly the type M[K].                            *)
C2_MappedPropertyOverrides ==
  (pc = "mapped" /\ ObjectInput) =>
    \A k \in Keys(TheObject(T)) :
      ( /\ ~PlainObject(Index(ResponseOf(T, Never), k))
        /\ ~UnknownExtends(Index(M, k)) )
      => /\ PlainObject(out)
         /\ k \in Keys(TheObject(out))
         /\ Index(out, k) = Index(M, k)

(* C3: a property K that the mapping M does not name is present in         *)
(* ResponseOf<T, M> with the type and the optionality it has in            *)
(* ResponseOf<T>.                                                          *)
C3_UnmappedPropertyKept ==
  (pc = "mapped" /\ ObjectInput) =>
    \A k \in Keys(TheObject(T)) :
      UnknownExtends(Index(M, k))
      => /\ PlainObject(out)
         /\ k \in Keys(TheObject(out))
         /\ PropOf(TheObject(out), k) = PropOf(TheObject(ResponseOf(T, Never)), k)

RECURSIVE C4_NestedApplied(_, _, _)

C4_NestedApplied(t, m, r) ==
  \A p \in TheObject(t).props :
    (~p.opt /\ PlainObject(p.t) /\ PlainObject(Index(m, p.k)))
    => /\ Index(r, p.k) = ResponseOf(p.t, Index(m, p.k))
       /\ C4_NestedApplied(p.t, Index(m, p.k), Index(r, p.k))

RECURSIVE C4_UnnamedFieldsKept(_, _, _)

C4_UnnamedFieldsKept(t, m, r) ==
  \A p \in TheObject(t).props :
    (~p.opt /\ PlainObject(p.t) /\ PlainObject(Index(m, p.k)))
    => /\ PlainObject(Index(r, p.k))
       /\ \A f \in Keys(TheObject(p.t)) :
            UnknownExtends(Index(Index(m, p.k), f))
            => /\ f \in Keys(TheObject(Index(r, p.k)))
               /\ PropOf(TheObject(Index(r, p.k)), f)
                    = PropOf(TheObject(ResponseOf(p.t, Never)), f)
       /\ C4_UnnamedFieldsKept(p.t, Index(m, p.k), Index(r, p.k))

\* The first half of C4 alone: the recursion into ResponseOf<T[K], M[K]>.
C4_RecursionEquality ==
  (pc = "mapped" /\ ObjectInput) => C4_NestedApplied(T, M, out)

(* C4: for a property K whose type is a plain object and whose M[K] is an  *)
(* object mapping, the type of K in ResponseOf<T, M> is                    *)
(* ResponseOf<T[K], M[K]>, at every nesting depth; that is, the fields of  *)
(* T[K] that M[K] does not name keep their default-normalized type.        *)
C4_NestedMapping ==
  (pc = "mapped" /\ ObjectInput) =>
    /\ C4_NestedApplied(T, M, out)
    /\ C4_UnnamedFieldsKept(T, M, out)

\* The resulting type of property k: M[K] if mapped, else the normalized type.
C6_ResultingType(k) ==
  IF UnknownExtends(Index(M, k)) THEN Index(ResponseOf(T, Never), k) ELSE Index(M, k)

(* C6: an optional property stays optional under the default mapping;      *)
(* under a mapping M an optional property K is optional in the result      *)
(* exactly when its resulting type (M[K] if mapped, else the               *)
(* default-normalized type) admits undefined, and is required with type    *)
(* M[K] when M[K] is defined and does not admit undefined.                 *)
C6_Optionality ==
  /\ (pc = "default" /\ ObjectInput) =>
       \A k \in OptionalKeys(TheObject(T)) :
         PlainObject(out) /\ k \in OptionalKeys(TheObject(out))
  /\ (pc = "mapped" /\ ObjectInput) =>
       \A k \in OptionalKeys(TheObject(T)) :
         /\ PlainObject(out)
         /\ k \in Keys(TheObject(out))
         /\ k \in OptionalKeys(TheObject(out)) <=> UndefinedExtends(C6_ResultingType(k))
         /\ (~UnknownExtends(Index(M, k)) /\ ~UndefinedExtends(Index(M, k)))
            => PropOf(TheObject(out), k) = Req(k, Index(M, k))

\* An optional property mapped to number became a required number, next to
\* an unmapped optional property that stayed optional.
C6_Witness ==
  /\ pc = "mapped"
  /\ ObjectInput
  /\ "a" \in OptionalKeys(TheObject(T))
  /\ "b" \in OptionalKeys(TheObject(T))
  /\ Index(M, "a") = {Number}
  /\ UnknownExtends(Index(M, "b"))
  /\ PropOf(TheObject(out), "a") = Req("a", {Number})
  /\ "b" \in OptionalKeys(TheObject(out))

(* C8: ResponseOf<T | null, M> = ResponseOf<T, M> | null, with no other    *)
(* union member: the mapping M never appears as a member of the result.    *)
C8_NullableInputWithMapping ==
  (pc = "mapped" /\ Null \in T) =>
    out = Union2(ResponseOf(T \ {Null}, M), {Null})

\* Property p is a nullable or optional object that M maps by an object
\* mapping naming only some of its fields.
C9_SubMappingApplies(p) ==
  /\ Cardinality(ObjectMembers(p.t)) = 1
  /\ NullishOf(p.t) # {}
  /\ p.t = ObjectMembers(p.t) \cup NullishOf(p.t)
  /\ PlainObject(Index(M, p.k))
  /\ Keys(TheObject(Index(M, p.k))) \subseteq Keys(TheObject(p.t))
  /\ Keys(TheObject(Index(M, p.k))) # Keys(TheObject(p.t))

(* C9: for a property K of type O | null, O | undefined or optional K?: O  *)
(* and an object mapping M[K] naming only some fields of O, the type of K  *)
(* in ResponseOf<T, M> still has every field of O: the named ones with the *)
(* mapped type, the others with their default-normalized type.             *)
C9_SubMappingMerged ==
  (pc = "mapped" /\ ObjectInput) =>
    \A p \in TheObject(T).props :
      C9_SubMappingApplies(p) =>
        LET O == TheObject(p.t)
            sub == Index(M, p.k)
            R == ObjectMembers(Index(out, p.k))
        IN /\ Cardinality(R) = 1
           /\ \A f \in Keys(O) :
                /\ f \in Keys(TheObject(R))
                /\ Index(R, f) = IF f \in Keys(TheObject(sub))
                                 THEN Index(sub, f)
                                 ELSE Index(ResponseOf({O}, Never), f)
====
